---- MODULE Spec2Model ----
(***************************************************************************)
(* FIRE ticket routing: result reconciliation (load_results.py), roster    *)
(* import (load_data.py), and the dashboard's priority tiering and chart   *)
(* aggregation (app.py).                                                   *)
(*                                                                         *)
(* Text is modelled as sequences of one-character strings, so that strip,  *)
(* case folding and substring search are computed, not assumed.  Cyrillic  *)
(* literals of the source are transliterated: "Da" is the source's         *)
(* escalation marker, NotFound the source's "manager not found" sentinel.  *)
(***************************************************************************)
EXTENDS Integers, Sequences, FiniteSets, TLC

\* ------------------------------------------------------------------ bounds
MaxBatch == 2
MaxRuns == 3
MaxImports == 1
MaxWrites == 2
MaxPrioLen == 3
MaxRows == 3
MaxFaults == 1
MaxCalls == 2

\* -------------------------------------------------------------------- text
\* pandas' missing value (an empty CSV cell); not a text
NaN == <<"NaN">>

Upper(c) ==
    CASE c = "a" -> "A"
      [] c = "b" -> "B"
      [] c = "x" -> "X"
      [] OTHER -> c

UpperSeq(s) == [k \in 1..Len(s) |-> Upper(s[k])]

RECURSIVE LStrip(_)
LStrip(s) == IF s # <<>> /\ Head(s) = " " THEN LStrip(Tail(s)) ELSE s

RECURSIVE RStrip(_)
RStrip(s) ==
    IF s # <<>> /\ s[Len(s)] = " " THEN RStrip(SubSeq(s, 1, Len(s) - 1)) ELSE s

Strip(s) == RStrip(LStrip(s))

\* clean_text: NaN becomes "", anything else is stripped
CleanText(val) == IF val = NaN THEN <<>> ELSE Strip(val)

Contains(hay, needle) ==
    \E k \in 0..(Len(hay) - Len(needle)) : SubSeq(hay, k + 1, k + Len(needle)) = needle

\* Django's __icontains on PostgreSQL: UPPER(col) LIKE UPPER('%needle%')
IContains(hay, needle) == Contains(UpperSeq(hay), UpperSeq(needle))

\* int(float(val)) on a decimal numeral given in tenths: truncation toward zero
TruncTenths(t) == IF t >= 0 THEN t \div 10 ELSE -((-t) \div 10)

\* a CSV cell that pandas may read as missing, as a number or as text
NanCell == [k |-> "nan", v |-> 0]
NumCell(t) == [k |-> "num", v |-> t]
TextCell == [k |-> "text", v |-> 0]

\* safe_int of load_data.py
SafeInt(val) ==
    CASE val.k = "nan" -> 0
      [] val.k = "num" -> TruncTenths(val.v)
      [] OTHER -> 0

\* --------------------------------------------------------------- literals
Da == <<"D", "a">>
NotFound == <<"N", "f">>
Dash == <<"-">>
Sentinels == {NotFound, Dash}

nAb == <<"A", "b">>
nB == <<"b">>
nHy == <<"a", "-", "b">>

\* ------------------------------------------------------------------ inputs
RosterRow(fio, office, load) == [FIO |-> fio, Office |-> office, Load |-> load]

\* the data/ directory read by load_all: business_units.csv, managers.csv, tickets.csv
DataDirs ==
    { [units |-> << <<"X">> >>,
       managers |-> << RosterRow(nAb, <<"x">>, NumCell(25)),
                       RosterRow(<<"b", " ">>, NaN, NanCell) >>,
       tickets |-> << <<"1">>, <<"2">> >>],
      [units |-> << <<"X">> >>,
       managers |-> << RosterRow(nB, <<"X">>, TextCell),
                       RosterRow(nHy, <<"X">>, NumCell(-15)),
                       RosterRow(NaN, <<"X">>, NumCell(10)),
                       RosterRow(nAb, <<"Z">>, NumCell(30)) >>,
       tickets |-> << <<"2">>, NaN, <<" ", "1">> >>] }

Row(g, m, t, e) == [GUID |-> g, Manager |-> m, Type |-> t, Esc |-> e]

\* rows the classifier may write to results.csv
RowDomain ==
    { Row(<<"1">>, nB, <<"C">>, Da),
      Row(<<"1">>, Dash, NaN, <<"N">>),
      Row(<<"1">>, NotFound, <<"C">>, NaN),
      Row(<<"1", " ">>, NaN, <<"A">>, Da),
      Row(<<"2">>, <<"a", "B", " ">>, <<"C">>, <<"D", "a", " ">>),
      Row(<<"2">>, <<"B", "B">>, NaN, NaN),
      Row(<<"2">>, nAb, <<"A">>, <<"d", "a">>),
      Row(<<"9">>, nAb, <<"C">>, Da),
      Row(NaN, nB, <<"C">>, Da) }

RECURSIVE SeqsUpTo(_, _)
SeqsUpTo(S, n) ==
    IF n = 0 THEN {<<>>}
    ELSE LET shorter == SeqsUpTo(S, n - 1)
         IN shorter \cup {Append(s, x) : s \in {t \in shorter : Len(t) = n - 1}, x \in S}

Batches == SeqsUpTo(RowDomain, MaxBatch)

\* results.csv: absent until the classifier has written it
NoFile == [exists |-> FALSE, rows |-> <<>>]
File(b) == [exists |-> TRUE, rows |-> b]

\* ------------------------------------------------------------------- state
VARIABLES
    units,          \* routing_businessunit: sequence (index = pk) of office names
    managers,       \* routing_manager: sequence (index = pk) of Manager records
    tickets,        \* routing_ticket: the set of stored GUIDs (unique)
    results,        \* routing_routingresult: set of RoutingResult records
    csv,            \* data/results.csv
    pc,             \* position of the load_results process
    i,              \* index of the next row of df.iterrows()
    j,              \* pk of the next manager of the load loop
    created_count,
    updated_count,
    last,           \* what the loop did with the row it handled last
    acct,           \* the locals of the load loop's last iteration
    ledger,         \* history: per manager, the imported load and the passes since
    startResults,   \* history: results when the current run started
    ingested,       \* history: results when the previous ingestion ended
    rerun,          \* history: the inputs are those of the previous run
    runs, imports, writes,
    out,            \* what the running load_results has printed
    exit,           \* history: how the last run over the present inputs ended
    origin,         \* history: the store when the batch was first started
    faults,
    roster,         \* history: the data directory last imported, runs since
    handler,        \* the sidebar's run handler: its position and locals
    snapshot,       \* df: the DataFrame the dashboard works on
    chart_spec,     \* the chart block the assistant returned
    rendered,       \* what render_chart_from_spec put on the page
    calls,          \* the calls of render_chart_from_spec in progress
    prio_in,        \* a value of the priority column
    prio_out,       \* its label
    prio_done

dashVars == << snapshot, chart_spec, rendered, calls >>

prioVars == << prio_in, prio_out, prio_done >>

storeVars ==
    << units, managers, tickets, results, csv, pc, i, j, created_count,
       updated_count, last, acct, ledger, startResults, ingested, rerun,
       runs, imports, writes, out, exit, origin, faults, roster, handler >>

\* the store and the run of load_results, without the handler
storeFields ==
    << units, managers, tickets, results, csv, pc, i, j, created_count,
       updated_count, last, acct, ledger, startResults, ingested, rerun,
       runs, imports, writes, out, exit, origin, faults, roster >>

None == 0

\* ------------------------------------------------------- roster import
\* queryset.first(): the match with the lowest pk, or None
FirstPk(S) == IF S = {} THEN None ELSE CHOOSE p \in S : \A q \in S : p <= q

\* BusinessUnit.objects.update_or_create(name=name, defaults={address})
RECURSIVE LoadUnits(_, _)
LoadUnits(us, rows) ==
    IF rows = <<>> THEN us
    ELSE LET name == CleanText(Head(rows))
             known == \E p \in 1..Len(us) : us[p] = name
         IN LoadUnits(IF name # <<>> /\ ~known THEN Append(us, name) ELSE us,
                      Tail(rows))

\* BusinessUnit.objects.filter(name__icontains=office_name).first()
OfficeOf(us, office_name) ==
    FirstPk({p \in 1..Len(us) : IContains(us[p], office_name)})

\* Manager.objects.update_or_create(full_name=..., defaults={office, current_load})
UpsertManager(ms, full_name, office, load) ==
    LET hit == {p \in 1..Len(ms) : ms[p].full_name = full_name}
    IN IF hit = {}
       THEN Append(ms, [id |-> Len(ms) + 1, full_name |-> full_name,
                        current_load |-> load, office |-> office])
       ELSE [p \in 1..Len(ms) |->
                IF p \in hit
                THEN [ms[p] EXCEPT !.current_load = load, !.office = office]
                ELSE ms[p]]

\* the managers loop of load_all; state st = [ms, touched].  Manager.office is
\* NOT NULL, so a row whose office is not found raises inside the try block and
\* ends the loop.
RECURSIVE LoadManagers(_, _, _)
LoadManagers(st, us, rows) ==
    IF rows = <<>> THEN st
    ELSE LET row == Head(rows)
             full_name == CleanText(row.FIO)
             office == OfficeOf(us, CleanText(row.Office))
             ms2 == UpsertManager(st.ms, full_name, office, SafeInt(row.Load))
             pk == CHOOSE p \in 1..Len(ms2) : ms2[p].full_name = full_name
         IN IF full_name = <<>> THEN LoadManagers(st, us, Tail(rows))
            ELSE IF office = None THEN st
            ELSE LoadManagers([ms |-> ms2, touched |-> st.touched \cup {pk}],
                              us, Tail(rows))

\* the tickets loop of load_all: Ticket.objects.update_or_create(guid=guid, ...)
RECURSIVE LoadTickets(_, _)
LoadTickets(ts, rows) ==
    IF rows = <<>> THEN ts
    ELSE LET guid == CleanText(Head(rows))
         IN LoadTickets(IF guid # <<>> THEN ts \cup {guid} ELSE ts, Tail(rows))

\* history: the load a roster import gave a manager, and what happened since
NewLedger(old, ms, touched) ==
    [p \in 1..Len(ms) |->
        IF p \in touched \/ p > Len(old)
        THEN [baseline_load |-> ms[p].current_load, passes |-> 0, dirty |-> FALSE]
        ELSE old[p]]

\* the whole of load_all on database db = [units, managers, tickets, ledger]
LoadAllOn(db, d) ==
    LET us == LoadUnits(db.units, d.units)
        st == LoadManagers([ms |-> db.managers, touched |-> {}], us, d.managers)
    IN [units |-> us,
        managers |-> st.ms,
        tickets |-> LoadTickets(db.tickets, d.tickets),
        ledger |-> NewLedger(db.ledger, st.ms, st.touched)]

EmptyDb == [units |-> <<>>, managers |-> <<>>, tickets |-> {}, ledger |-> <<>>]

\* ------------------------------------------------------- reconciliation
\* variant of ResolveManager without the sentinel test: any non-empty name is
\* looked up
ResolveAnyName(ms, manager_name) ==
    IF manager_name # <<>>
    THEN FirstPk({p \in 1..Len(ms) : IContains(ms[p].full_name, manager_name)})
    ELSE None

\* load_results.py lines 55-58: the manager a row's free-text name resolves to
ResolveManager(ms, manager_name) ==
    IF manager_name # <<>> /\ manager_name \notin Sentinels
    THEN FirstPk({p \in 1..Len(ms) : IContains(ms[p].full_name, manager_name)})
    ELSE None

\* the defaults dict of update_or_create.  Of the fifteen text columns, which are
\* all clean_text(row.get(column)), ai_type stands for the fourteen others.
Defaults(ms, row) ==
    LET manager_name == CleanText(row.Manager)
    IN [ai_type |-> CleanText(row.Type),
        is_escalated |-> (CleanText(row.Esc) = Da),
        manager_name |-> manager_name,
        assigned_manager |-> ResolveManager(ms, manager_name)]

NextId(rs) ==
    IF rs = {} THEN 1 ELSE 1 + (CHOOSE n \in {r.id : r \in rs} : \A r \in rs : r.id <= n)

NewResult(id, ticket, d) ==
    [id |-> id, ticket |-> ticket, ai_type |-> d.ai_type,
     is_escalated |-> d.is_escalated, manager_name |-> d.manager_name,
     assigned_manager |-> d.assigned_manager]

\* variant of UpdateOrCreate that is a plain create
AlwaysCreate(rs, ticket, d) ==
    [rs |-> rs \cup {NewResult(NextId(rs), ticket, d)}, created |-> TRUE]

\* variant of UpdateOrCreate whose lookup is by ticket and manager name
UpsertByTicketAndName(rs, ticket, d) ==
    LET hit == {r \in rs : r.ticket = ticket /\ r.manager_name = d.manager_name}
    IN IF hit = {}
       THEN [rs |-> rs \cup {NewResult(NextId(rs), ticket, d)}, created |-> TRUE]
       ELSE [rs |-> (rs \ hit) \cup {NewResult(r.id, ticket, d) : r \in hit},
             created |-> FALSE]

\* variant of UpdateOrCreate that merges: an empty or null new value keeps the old
MergeFields(rs, ticket, d) ==
    LET hit == {r \in rs : r.ticket = ticket}
    IN IF hit = {}
       THEN [rs |-> rs \cup {NewResult(NextId(rs), ticket, d)}, created |-> TRUE]
       ELSE [rs |-> (rs \ hit) \cup
                       {[r EXCEPT
                           !.ai_type = IF d.ai_type = <<>> THEN @ ELSE d.ai_type,
                           !.is_escalated = d.is_escalated,
                           !.manager_name = d.manager_name,
                           !.assigned_manager =
                               IF d.assigned_manager = None THEN @ ELSE d.assigned_manager] :
                          r \in hit},
             created |-> FALSE]

\* RoutingResult.objects.update_or_create(ticket=ticket, defaults=d)
UpdateOrCreate(rs, ticket, d) ==
    LET hit == {r \in rs : r.ticket = ticket}
    IN IF hit = {}
       THEN [rs |-> rs \cup {NewResult(NextId(rs), ticket, d)}, created |-> TRUE]
       ELSE [rs |-> (rs \ hit) \cup {NewResult(r.id, ticket, d) : r \in hit},
             created |-> FALSE]

\* variant of IngestOne that drops a row whose manager does not resolve
IngestResolvedOnly(rs, ts, ms, row) ==
    LET guid == CleanText(row.GUID)
        d == Defaults(ms, row)
    IN IF guid = <<>> THEN [rs |-> rs, ms |-> ms, outcome |-> "no_guid"]
       ELSE IF guid \notin ts \/ d.assigned_manager = None
       THEN [rs |-> rs, ms |-> ms, outcome |-> "no_ticket"]
       ELSE LET u == UpdateOrCreate(rs, guid, d)
            IN [rs |-> u.rs, ms |-> ms,
                outcome |-> IF u.created THEN "created" ELSE "updated"]

\* variant of IngestOne without the ticket lookup
IngestAnyTicket(rs, ts, ms, row) ==
    LET guid == CleanText(row.GUID)
    IN IF guid = <<>> THEN [rs |-> rs, ms |-> ms, outcome |-> "no_guid"]
       ELSE LET u == UpdateOrCreate(rs, guid, Defaults(ms, row))
            IN [rs |-> u.rs, ms |-> ms,
                outcome |-> IF u.created THEN "created" ELSE "updated"]

\* variant of IngestOne that also adds the ticket to the load of its manager
IngestAndCount(rs, ts, ms, row) ==
    LET guid == CleanText(row.GUID)
        d == Defaults(ms, row)
    IN IF guid = <<>> THEN [rs |-> rs, ms |-> ms, outcome |-> "no_guid"]
       ELSE IF guid \notin ts THEN [rs |-> rs, ms |-> ms, outcome |-> "no_ticket"]
       ELSE LET u == UpdateOrCreate(rs, guid, d)
            IN [rs |-> u.rs,
                ms |-> [p \in 1..Len(ms) |->
                          IF p = d.assigned_manager
                          THEN [ms[p] EXCEPT !.current_load = @ + 1]
                          ELSE ms[p]],
                outcome |-> IF u.created THEN "created" ELSE "updated"]

\* one iteration of the loop over df.iterrows(): what it does to the tables
\* (rs: routing_routingresult, ms: routing_manager, which it only reads)
IngestOne(rs, ts, ms, row) ==
    LET guid == CleanText(row.GUID)
    IN IF guid = <<>> THEN [rs |-> rs, ms |-> ms, outcome |-> "no_guid"]
       ELSE IF guid \notin ts THEN [rs |-> rs, ms |-> ms, outcome |-> "no_ticket"]
       ELSE LET u == UpdateOrCreate(rs, guid, Defaults(ms, row))
            IN [rs |-> u.rs, ms |-> ms,
                outcome |-> IF u.created THEN "created" ELSE "updated"]

\* the loop over df.iterrows() as a whole: the table it leaves
RECURSIVE IngestAll(_, _, _, _)
IngestAll(rs, ts, ms, rows) ==
    IF rows = <<>> THEN rs
    ELSE IngestAll(IngestOne(rs, ts, ms, Head(rows)).rs, ts, ms, Tail(rows))

\* ------------------------------------------------------- load accounting
FkCount(rs, m) == Cardinality({r \in rs : r.assigned_manager = m.id})

NameCount(rs, m) == Cardinality({r \in rs : r.manager_name = m.full_name})

\* variant of AiCount that adds the two counts
SumOfCounts(rs, m) == FkCount(rs, m) + NameCount(rs, m)

\* filter(Q(assigned_manager=m) | Q(manager_name=m.full_name)).distinct().count()
AiCount(rs, m) ==
    Cardinality({r \in rs : r.assigned_manager = m.id \/ r.manager_name = m.full_name})

\* m.current_load = old_load + ai_count
NewLoad(old_load, ai_count) == old_load + ai_count

\* ------------------------------------------------------------- actions
NoAcct == [pk |-> None, old_load |-> 0, fk_count |-> 0, name_count |-> 0,
           ai_count |-> 0, new_load |-> 0]

NoLast == [outcome |-> "none", row |-> 0, existed |-> FALSE, prev |-> None,
           changed |-> FALSE]

\* nothing printed yet: no "ticket not found" line, no line 88, no error line
NoOutput == [warned |-> {}, counts |-> <<>>, error |-> FALSE]

NoExit == [code |-> 0, error |-> "norun", at |-> "none", rows |-> 0, of |-> 0,
           accounted |-> FALSE]

NoOrigin == [interrupted |-> FALSE, at |-> "none", results |-> {}, managers |-> <<>>]

\* the run button has not been pressed
NoHandler == [pc |-> "idle", is_timeout |-> FALSE, returncode |-> 0,
              message |-> "none",
              entry |-> [results |-> {}, managers |-> << >>, tickets |-> {},
                         units |-> << >>, runs |-> 0]]

\* no data directory imported
NoRoster == [last |-> [units |-> << >>, managers |-> << >>, tickets |-> << >>],
             same |-> TRUE, runs |-> 0]

\* the sidebar handler's message for load_results' return code
HandlerMessage(returncode) == IF returncode = 0 THEN "success" ELSE "warning"

StoreInit ==
    /\ \E d \in DataDirs :
          LET db == LoadAllOn(EmptyDb, d)
          IN /\ units = db.units
             /\ managers = db.managers
             /\ tickets = db.tickets
             /\ ledger = db.ledger
             /\ roster = [last |-> d, same |-> TRUE, runs |-> 0]
    /\ handler = NoHandler
    /\ results = {}
    /\ csv = NoFile
    /\ pc = "idle"
    /\ i = 0
    /\ j = 0
    /\ created_count = 0
    /\ updated_count = 0
    /\ last = NoLast
    /\ acct = NoAcct
    /\ startResults = {}
    /\ ingested = {}
    /\ rerun = FALSE
    /\ runs = 0
    /\ imports = 0
    /\ writes = 0
    /\ out = NoOutput
    /\ exit = NoExit
    /\ origin = NoOrigin
    /\ faults = 0

\* load_data.py run again on a populated database
LoadAll ==
    /\ pc = "idle"
    /\ imports < MaxImports
    /\ \E d \in DataDirs :
          LET db == LoadAllOn([units |-> units, managers |-> managers,
                               tickets |-> tickets, ledger |-> ledger], d)
          IN /\ units' = db.units
             /\ managers' = db.managers
             /\ tickets' = db.tickets
             /\ ledger' = db.ledger
             /\ roster' = [last |-> d, same |-> (roster.same /\ d = roster.last),
                           runs |-> 0]
    /\ imports' = imports + 1
    /\ rerun' = FALSE
    /\ ingested' = {}
    /\ UNCHANGED << results, csv, pc, i, j, created_count, updated_count, last,
                    acct, startResults, runs, writes, out, faults >>
    /\ exit' = NoExit
    /\ origin' = NoOrigin
    /\ UNCHANGED << dashVars, prioVars, handler >>

\* the classifier (go run main.go) leaves a new results.csv
WriteCsv ==
    /\ pc = "idle"
    /\ writes < MaxWrites
    /\ \E b \in Batches :
          /\ csv' = File(b)
          /\ rerun' = (rerun /\ csv = File(b))
          /\ ingested' = IF rerun /\ csv = File(b) THEN ingested ELSE {}
    /\ writes' = writes + 1
    /\ UNCHANGED << units, managers, tickets, results, pc, i, j, created_count,
                    updated_count, last, acct, ledger, startResults, runs, imports,
                    out, faults, roster >>
    /\ exit' = NoExit
    /\ origin' = NoOrigin
    /\ UNCHANGED << dashVars, prioVars, handler >>

\* variant of RowsLeft that leaves the loop one row early
RowsLeftButLast(k, rows) == k < Len(rows)

\* for _, row in df.iterrows(): the loop has a row to go through
RowsLeft(k, rows) == k <= Len(rows)

\* load_results with no results.csv: pd.read_csv raises, the except clause prints
RunNoFile ==
    /\ pc = "idle"
    /\ runs < MaxRuns
    /\ ~csv.exists
    /\ runs' = runs + 1
    /\ exit' = [code |-> 0, error |-> "nofile", at |-> "read", rows |-> 0, of |-> 0,
                accounted |-> FALSE]
    /\ UNCHANGED << units, managers, tickets, results, csv, pc, i, j, created_count,
                    updated_count, last, acct, ledger, startResults, ingested,
                    rerun, imports, writes, out, origin, faults, roster >>
    /\ UNCHANGED << dashVars, prioVars, handler >>

\* load_results lines 40-43: the file is read, the counters are zeroed
StartRun ==
    /\ pc = "idle"
    /\ runs < MaxRuns
    /\ csv.exists
    /\ pc' = "ingest"
    /\ i' = 1
    /\ created_count' = 0
    /\ updated_count' = 0
    /\ last' = NoLast
    /\ acct' = NoAcct
    /\ startResults' = results
    /\ out' = NoOutput
    /\ exit' = NoExit
    /\ origin' = IF origin.interrupted THEN origin
                 ELSE [interrupted |-> FALSE, at |-> "none", results |-> results,
                       managers |-> managers]
    /\ UNCHANGED << units, managers, tickets, results, csv, j, ledger, ingested,
                    rerun, runs, imports, writes, faults >>
    /\ roster' = [roster EXCEPT !.runs = IF @ < 2 THEN @ + 1 ELSE 2]
    /\ UNCHANGED << dashVars, prioVars, handler >>

\* load_results lines 45-86: one row of the batch
IngestRow ==
    /\ pc = "ingest"
    /\ RowsLeft(i, csv.rows)
    /\ LET row == csv.rows[i]
           guid == CleanText(row.GUID)
           step == IngestOne(results, tickets, managers, row)
       IN /\ results' = step.rs
          /\ managers' = step.ms
          /\ out' = IF step.outcome = "no_ticket"
                    THEN [out EXCEPT !.warned = @ \cup {i}]
                    ELSE out
          /\ created_count' = created_count + (IF step.outcome = "created" THEN 1 ELSE 0)
          /\ updated_count' = updated_count + (IF step.outcome = "updated" THEN 1 ELSE 0)
          /\ last' = [outcome |-> step.outcome, row |-> i,
                      existed |-> (\E r \in results : r.ticket = guid),
                      prev |-> FirstPk({r.assigned_manager :
                                          r \in {q \in results : q.ticket = guid}}),
                      changed |-> (step.rs # results)]
          /\ ledger' = [p \in 1..Len(ledger) |->
                           IF step.rs # results /\ ledger[p].passes >= 1
                           THEN [ledger[p] EXCEPT !.dirty = TRUE]
                           ELSE ledger[p]]
    /\ i' = i + 1
    /\ UNCHANGED << units, tickets, csv, pc, j, acct, startResults,
                    ingested, rerun, runs, imports, writes, exit, origin, faults,
                    roster >>
    /\ UNCHANGED << dashVars, prioVars, handler >>

\* load_results lines 88-92: the loop over the rows has ended
IngestDone ==
    /\ pc = "ingest"
    /\ ~RowsLeft(i, csv.rows)
    /\ pc' = "account"
    /\ j' = 1
    /\ ingested' = IF rerun THEN ingested ELSE results
    /\ out' = [out EXCEPT !.counts = << created_count, updated_count >>]
    /\ UNCHANGED << units, managers, tickets, results, csv, i, created_count,
                    updated_count, last, acct, ledger, startResults, rerun,
                    runs, imports, writes, exit, origin, faults, roster >>
    /\ UNCHANGED << dashVars, prioVars, handler >>

\* load_results lines 92-113: one manager of the load loop
AccountManager ==
    /\ pc = "account"
    /\ j <= Len(managers)
    /\ LET m == managers[j]
           old_load == m.current_load
           ai_count == AiCount(results, m)
           new_load == NewLoad(old_load, ai_count)
       IN /\ managers' = [managers EXCEPT ![j].current_load = new_load]
          /\ acct' = [pk |-> m.id, old_load |-> old_load,
                      fk_count |-> FkCount(results, m),
                      name_count |-> NameCount(results, m),
                      ai_count |-> ai_count, new_load |-> new_load]
          /\ ledger' = [ledger EXCEPT ![j].passes = @ + 1]
    /\ j' = j + 1
    /\ UNCHANGED << units, tickets, results, csv, pc, i, created_count,
                    updated_count, last, startResults, ingested, rerun, runs,
                    imports, writes, out, exit, origin, faults, roster >>
    /\ UNCHANGED << dashVars, prioVars, handler >>

\* load_results line 114: the run ends, and its locals with it
FinishRun ==
    /\ pc = "account"
    /\ j > Len(managers)
    /\ pc' = "idle"
    /\ i' = 0
    /\ j' = 0
    /\ created_count' = 0
    /\ updated_count' = 0
    /\ last' = NoLast
    /\ acct' = NoAcct
    /\ startResults' = {}
    /\ runs' = runs + 1
    /\ rerun' = TRUE
    /\ out' = NoOutput
    /\ exit' = [code |-> 0, error |-> "none", at |-> "none",
                rows |-> Len(csv.rows), of |-> Len(csv.rows), accounted |-> TRUE]
    /\ origin' = NoOrigin
    /\ UNCHANGED << units, managers, tickets, results, csv, ledger, ingested,
                    imports, writes, faults, roster >>
    /\ UNCHANGED << dashVars, prioVars, handler >>

\* a run cut short. "exception": a statement inside the try block raises (the
\* database refuses a row, or is unreachable), the except clause at lines
\* 116-117 prints the error and the process ends normally. "killed": the
\* process is stopped from outside. Every write already made is committed.
Abort ==
    /\ pc \in {"ingest", "account"}
    /\ faults < MaxFaults
    /\ \E cause \in {"exception", "killed"} :
          exit' = [code |-> IF cause = "killed" THEN 1 ELSE 0,
                   error |-> cause,
                   at |-> IF pc = "account" THEN "load"
                          ELSE IF i <= Len(csv.rows) THEN "row" ELSE "managers",
                   rows |-> IF pc = "account" THEN Len(csv.rows) ELSE i - 1,
                   of |-> Len(csv.rows),
                   accounted |-> FALSE]
    /\ faults' = faults + 1
    /\ pc' = "idle"
    /\ i' = 0
    /\ j' = 0
    /\ created_count' = 0
    /\ updated_count' = 0
    /\ last' = NoLast
    /\ acct' = NoAcct
    /\ startResults' = {}
    /\ runs' = runs + 1
    /\ rerun' = (pc = "account")
    /\ out' = NoOutput
    /\ origin' = [origin EXCEPT !.interrupted = TRUE,
                                !.at = IF pc = "account" \/ @ = "load" THEN "load"
                                       ELSE "rows"]
    /\ UNCHANGED << units, managers, tickets, results, csv, ledger, ingested,
                    imports, writes, roster >>
    /\ UNCHANGED << dashVars, prioVars, handler >>

StoreNext ==
    \/ LoadAll
    \/ WriteCsv
    \/ RunNoFile
    \/ StartRun
    \/ IngestRow
    \/ IngestDone
    \/ AccountManager
    \/ FinishRun

\* ------------------------------------------------------- priority tiering
Digits == {"0", "1", "2", "3", "4", "5", "6", "7", "8", "9"}

DigitVal(c) ==
    CASE c = "0" -> 0 [] c = "1" -> 1 [] c = "2" -> 2 [] c = "3" -> 3 [] c = "4" -> 4
      [] c = "5" -> 5 [] c = "6" -> 6 [] c = "7" -> 7 [] c = "8" -> 8 [] OTHER -> 9

RECURSIVE Pow10(_)
Pow10(n) == IF n = 0 THEN 1 ELSE 10 * Pow10(n - 1)

\* the decimal value of a sequence of digits
RECURSIVE DigitsVal(_)
DigitsVal(ds) ==
    IF ds = <<>> THEN 0 ELSE 10 * DigitsVal(SubSeq(ds, 1, Len(ds) - 1)) + DigitVal(ds[Len(ds)])

Inf == <<"i", "n", "f">>
Nan == <<"n", "a", "n">>

\* the digits of ds without its leading zeros
RECURSIVE Significant(_)
Significant(ds) == IF ds # <<>> /\ Head(ds) = "0" THEN Significant(Tail(ds)) ELSE ds

\* Python's float(str): surrounding blanks, a sign, then inf, nan, or digits with
\* at most one point and at least one digit, and an optional exponent (e, a sign,
\* digits).  numeral: the text is a decimal numeral; finite: the double is finite
\* (a numeral of 1.8e308 or more overflows to inf); the value is sign * num / den.
\* Decimal exponents beyond +-5 are kept as +-5: the values are those of TLC's
\* integers, and int() of the value is then 0 or at least 10^5 either way.
ParseFloat(val) ==
    LET t == Strip(val)
        signed == t # <<>> /\ Head(t) \in {"-", "+"}
        body == IF signed THEN Tail(t) ELSE t
        es == {k \in 1..Len(body) : body[k] \in {"e", "E"}}
        epos == IF es = {} THEN Len(body) + 1 ELSE CHOOSE k \in es : TRUE
        mant == SubSeq(body, 1, epos - 1)
        expo == SubSeq(body, epos + 1, Len(body))
        esigned == expo # <<>> /\ Head(expo) \in {"-", "+"}
        edigits == IF esigned THEN Tail(expo) ELSE expo
        dots == {k \in 1..Len(mant) : mant[k] = "."}
        ds == SelectSeq(mant, LAMBDA c : c \in Digits)
        numeral == /\ ds # <<>>
                   /\ Cardinality(dots) <= 1
                   /\ \A k \in 1..Len(mant) : mant[k] \in Digits \cup {"."}
                   /\ Cardinality(es) <= 1
                   /\ es # {} => (edigits # <<>> /\ \A k \in 1..Len(edigits) : edigits[k] \in Digits)
        frac == IF dots = {} THEN 0 ELSE Len(mant) - (CHOOSE k \in dots : TRUE)
        e == IF ~numeral \/ es = {} THEN 0
             ELSE IF Head(expo) = "-" THEN -DigitsVal(edigits) ELSE DigitsVal(edigits)
        sig == Significant(ds)
        \* the decimal exponent of the leading significant digit
        lead == e - frac + Len(sig) - 1
        lead2 == IF Len(sig) >= 2 THEN DigitsVal(SubSeq(sig, 1, 2))
                 ELSE 10 * DigitsVal(sig)
        overflow == numeral /\ sig # <<>> /\ (lead > 308 \/ (lead = 308 /\ lead2 >= 18))
        shift == IF e - frac > 5 THEN 5 ELSE IF e - frac < -5 THEN -5 ELSE e - frac
    IN [ok |-> numeral \/ body \in {Inf, Nan},
        numeral |-> numeral,
        finite |-> numeral /\ ~overflow,
        neg |-> signed /\ Head(t) = "-",
        num |-> IF numeral
                THEN DigitsVal(ds) * (IF shift > 0 THEN Pow10(shift) ELSE 1) ELSE 0,
        den |-> IF numeral /\ shift < 0 THEN Pow10(-shift) ELSE 1]

\* Python's int(float): truncation toward zero
IntOf(f) == IF f.neg THEN -(f.num \div f.den) ELSE f.num \div f.den

High == <<"H", "i", "g", "h">>
Medium == <<"M", "e", "d", "i", "u", "m">>
Low == <<"L", "o", "w">>

\* prio_label of app.py: float(val) raises on text, int() raises on inf and nan,
\* and the bare except returns str(val)
PrioLabel(val) ==
    LET f == ParseFloat(val)
    IN IF ~(f.ok /\ f.finite) THEN val
       ELSE IF IntOf(f) >= 8 THEN High
       ELSE IF IntOf(f) >= 5 THEN Medium
       ELSE Low

PrioAlphabet == {" ", "-", ".", "4", "5", "7", "8", "u"}

\* stored ai_priority values: a text column (CharField), so any text
PrioInputs ==
    SeqsUpTo(PrioAlphabet, MaxPrioLen)
        \cup {Inf, Nan, <<"-", "i", "n", "f">>,
              <<"1", "e", "1">>, <<"8", "e", "0">>, <<"7", "9", "e", "-", "1">>,
              <<"4", "9", "E", "-", "1">>, <<"5", "e", "+", "0">>, <<"1", "e">>,
              <<"e", "1">>, <<"1", "e", "1", "e", "1">>, <<"0", "e", "9", "9", "9">>,
              <<"1", "e", "-", "9">>, <<"1", "e", "4", "0", "0">>,
              <<"1", ".", "7", "e", "3", "0", "8">>, <<"1", ".", "8", "e", "3", "0", "8">>,
              <<"9", "e", "9">>}

\* ------------------------------------------------------- dashboard snapshot
\* a value of a DataFrame cell or of a JSON field: text, number or null
StrV(v) == [t |-> "str", v |-> v]
NumV(v) == [t |-> "num", v |-> v]
NullV == [t |-> "null", v |-> <<>>]

\* code point order of the characters in use
Ascii ==
    << " ", "-", ".", "0", "1", "2", "3", "4", "5", "6", "7", "8", "9",
       "A", "C", "D", "H", "L", "M", "N", "X", "Y", "a", "d", "e", "g", "h", "i",
       "m", "o", "t", "u", "w" >>

CharRank(c) == CHOOSE k \in 1..Len(Ascii) : Ascii[k] = c

RECURSIVE LexLess(_, _)
LexLess(a, b) ==
    IF b = <<>> THEN FALSE
    ELSE IF a = <<>> THEN TRUE
    ELSE IF Head(a) = Head(b) THEN LexLess(Tail(a), Tail(b))
    ELSE CharRank(Head(a)) < CharRank(Head(b))

\* the order pandas sorts an index of one type in
ValueLess(x, y) ==
    IF x.t = "num" /\ y.t = "num" THEN DigitsVal(x.v) < DigitsVal(y.v)
    ELSE LexLess(x.v, y.v)

IdText == << <<"1">>, <<"2">>, <<"3">>, <<"4">>, <<"5">> >>

\* rows of routing_routingresult as the dashboard may find them
DashRow(type, office, prio, esc, mgr) ==
    [ai_type |-> type, ai_assigned_office |-> office, ai_priority |-> prio,
     is_escalated |-> esc, assigned_manager_id |-> mgr]

DashRowDomain ==
    { DashRow(<<"A">>, <<"X">>, <<"9">>, TRUE, NumV(<<"1">>)),
      DashRow(<<"C">>, <<"X">>, <<"6", ".", "5">>, FALSE, NullV),
      DashRow(<<"C">>, <<"Y">>, <<"u">>, FALSE, NumV(<<"1">>)),
      DashRow(<<"A">>, <<"Y">>, <<"2">>, TRUE, NumV(<<"2">>)),
      DashRow(<<>>, <<"X">>, <<>>, FALSE, NullV) }

DashTables == SeqsUpTo(DashRowDomain, MaxRows) \ {<<>>}

\* load_data_from_db: SELECT *, the columns renamed, is_escalated mapped to text;
\* then line 199 adds the priority level column
LoadDataFromDb(table) ==
    [k \in 1..Len(table) |->
        [id |-> NumV(IdText[k]),
         ticket_id |-> NumV(IdText[k]),
         Tip |-> StrV(table[k].ai_type),
         Ofis_Naznacheniya |-> StrV(table[k].ai_assigned_office),
         Prioritet |-> StrV(table[k].ai_priority),
         Eskalirovan |-> StrV(IF table[k].is_escalated THEN Da ELSE <<"N", "e", "t">>),
         assigned_manager_id |-> table[k].assigned_manager_id,
         Prioritet_uroven |-> StrV(PrioLabel(table[k].ai_priority))]]

\* AVAILABLE_COLS: the columns the assistant is told it may group by
AllowList ==
    {"Segment", "Tip", "Tonalnost", "Yazyk", "Prioritet", "Prioritet_uroven",
     "Naznachennyj_Menedzher", "Dolzhnost", "Ofis_Naznacheniya", "Eskalirovan"}

\* ------------------------------------------------------- chart specification
\* JSON fields of the assistant's chart block
NullJ == [t |-> "null", name |-> "", names |-> <<>>, vals |-> <<>>, n |-> 0]
NameJ(s) == [t |-> "str", name |-> s, names |-> <<>>, vals |-> <<>>, n |-> 0]
NamesJ(l) == [t |-> "list", name |-> "", names |-> l, vals |-> <<>>, n |-> 0]
ValJ(v) == [t |-> v.t, name |-> "", names |-> <<>>, vals |-> <<v>>, n |-> 0]
ValsJ(l) == [t |-> "list", name |-> "", names |-> <<>>, vals |-> l, n |-> 0]
IntJ(k) == [t |-> "num", name |-> "", names |-> <<>>, vals |-> <<>>, n |-> k]
TextJ == [t |-> "str", name |-> "5", names |-> <<>>, vals |-> <<>>, n |-> 0]

GroupBys ==
    { NullJ, NameJ("Tip"), NameJ("Ofis_Naznacheniya"), NameJ("Prioritet_uroven"),
      NameJ("id"), NameJ("assigned_manager_id"), NameJ("Gorod"),
      NamesJ(<<"Tip", "Ofis_Naznacheniya">>), NamesJ(<<"Ofis_Naznacheniya", "id">>),
      NamesJ(<<"Tip", "Gorod">>), NamesJ(<<"Tip">>) }

Filters ==
    { [col |-> NullJ, val |-> NullJ],
      [col |-> NameJ("Tip"), val |-> ValJ(StrV(<<"C">>))],
      [col |-> NameJ("Tip"), val |-> ValsJ(<< StrV(<<"A">>), StrV(<<"C">>) >>)],
      [col |-> NameJ("Tip"), val |-> ValJ(StrV(<<>>))],
      [col |-> NameJ("Tip"), val |-> ValsJ(<<>>)],
      [col |-> NameJ("Tip"), val |-> NullJ],
      [col |-> NameJ("Ofis_Naznacheniya"), val |-> ValJ(StrV(<<"N">>))],
      [col |-> NameJ("Prioritet"), val |-> ValJ(NumV(<<"9">>))],
      [col |-> NameJ("ticket_id"), val |-> ValJ(NumV(<<"1">>))],
      [col |-> NameJ("Gorod"), val |-> ValJ(StrV(<<"C">>))],
      [col |-> NamesJ(<<"Tip">>), val |-> ValJ(StrV(<<"C">>))] }

TopNs == {NullJ, IntJ(0), IntJ(1), IntJ(2), IntJ(-1), TextJ}

ChartSpecs ==
    {[chart_type |-> c, group_by |-> g, filter_col |-> f.col, filter_val |-> f.val,
      top_n |-> n] :
        c \in {"bar", "line"}, g \in GroupBys, f \in Filters, n \in TopNs}

\* ------------------------------------------------------- chart rendering
SnapshotColumns ==
    {"id", "ticket_id", "Tip", "Ofis_Naznacheniya", "Prioritet", "Eskalirovan",
     "assigned_manager_id", "Prioritet_uroven"}

\* Python truth value of a JSON field
Truthy(x) ==
    CASE x.t = "null" -> FALSE
      [] x.t = "list" -> x.names # <<>> \/ x.vals # <<>>
      [] x.t = "str" -> x.name # "" \/ (x.vals # <<>> /\ x.vals[1].v # <<>>)
      [] OTHER -> x.n # 0 \/ (x.vals # <<>> /\ DigitsVal(x.vals[1].v) # 0)

Raised == [kind |-> "raise", table |-> <<>>, pivot |-> <<>>, field |-> NullJ]

NoOut == [kind |-> "none", table |-> <<>>, pivot |-> <<>>, field |-> NullJ]

Warning(g) == [kind |-> "warning", table |-> <<>>, pivot |-> <<>>, field |-> g]

\* lines 417-422: the filter; [ok, df]
FilterStep(spec, df) ==
    IF Truthy(spec.filter_col) /\ Truthy(spec.filter_val)
    THEN IF spec.filter_col.t = "list" THEN [ok |-> FALSE, df |-> df]
         ELSE IF spec.filter_col.t = "str" /\ spec.filter_col.name \in SnapshotColumns
         THEN LET col == spec.filter_col.name
                  wanted == {spec.filter_val.vals[k] : k \in 1..Len(spec.filter_val.vals)}
              IN [ok |-> TRUE,
                  df |-> IF spec.filter_val.t = "list"
                         THEN SelectSeq(df, LAMBDA row : row[col] \in wanted)
                         ELSE SelectSeq(df, LAMBDA row : row[col] = spec.filter_val.vals[1])]
         ELSE [ok |-> TRUE, df |-> df]
    ELSE [ok |-> TRUE, df |-> df]

RECURSIVE Perms(_)
Perms(S) ==
    IF S = {} THEN {<<>>}
    ELSE UNION {{<<x>> \o p : p \in Perms(S \ {x})} : x \in S}

\* the distinct non-null values of a column
Keys(df, col) == {df[k][col] : k \in 1..Len(df)} \ {NullV}

CountOf(df, col, v) == Cardinality({k \in 1..Len(df) : df[k][col] = v})

\* Series.value_counts(): one row per value, by descending count; the order of
\* values with equal counts is not fixed
ValueCounts(df, col) ==
    {[k \in 1..Len(p) |-> [key |-> p[k], n |-> CountOf(df, col, p[k])]] :
        p \in {q \in Perms(Keys(df, col)) :
                  \A k \in 1..(Len(q) - 1) :
                      CountOf(df, col, q[k]) >= CountOf(df, col, q[k + 1])}}

SortedKeys(S) ==
    CHOOSE p \in Perms(S) : \A k \in 1..(Len(p) - 1) : ValueLess(p[k], p[k + 1])

\* pd.crosstab(df[a], df[b]): rows and columns sorted, rows with a null dropped
CrossTab(df, a, b) ==
    LET both == SelectSeq(df, LAMBDA row : row[a] # NullV /\ row[b] # NullV)
        xs == SortedKeys(Keys(both, a))
        ys == Keys(both, b)
    IN [k \in 1..Len(xs) |->
           [key |-> xs[k],
            cells |-> [y \in ys |->
                         Cardinality({n \in 1..Len(both) :
                                        both[n][a] = xs[k] /\ both[n][b] = y})]]]

\* DataFrame.head(n) and Series.head(n)
HeadRows(t, n) ==
    IF n >= 0 THEN SubSeq(t, 1, IF n < Len(t) THEN n ELSE Len(t))
    ELSE SubSeq(t, 1, IF Len(t) + n > 0 THEN Len(t) + n ELSE 0)

\* render_chart_from_spec: everything it may put on the page for spec and df
RenderOutcomes(spec, df) ==
    LET f == FilterStep(spec, df)
        g == spec.group_by
        cut == Truthy(spec.top_n)
        badcut == cut /\ ~(spec.top_n.t = "num" /\ spec.top_n.vals = <<>>)
    IN IF ~f.ok THEN {Raised}
       ELSE IF g.t = "list" /\ Len(g.names) = 2
       THEN IF g.names[1] \in SnapshotColumns /\ g.names[2] \in SnapshotColumns
            THEN IF badcut THEN {Raised}
                 ELSE LET pivot == CrossTab(f.df, g.names[1], g.names[2])
                      IN {[kind |-> "bar", table |-> <<>>,
                           pivot |-> IF cut THEN HeadRows(pivot, spec.top_n.n) ELSE pivot,
                           field |-> g]}
            ELSE {Warning(g)}
       ELSE IF g.t = "str" /\ g.name \in SnapshotColumns
       THEN IF badcut THEN {Raised}
            ELSE {[kind |-> IF spec.chart_type = "line" THEN "line" ELSE "bar",
                   table |-> IF cut THEN HeadRows(data, spec.top_n.n) ELSE data,
                   pivot |-> <<>>,
                   field |-> g] : data \in ValueCounts(f.df, g.name)}
       ELSE {Warning(g)}

NoSpec ==
    [chart_type |-> "bar", group_by |-> NullJ, filter_col |-> NullJ,
     filter_val |-> NullJ, top_n |-> NullJ]

\* the store of a migrated, empty database: the frame of the dashboard's functions
StoreEmpty ==
    /\ units = <<>>
    /\ managers = <<>>
    /\ tickets = {}
    /\ ledger = <<>>
    /\ results = {}
    /\ csv = NoFile
    /\ pc = "idle"
    /\ i = 0
    /\ j = 0
    /\ created_count = 0
    /\ updated_count = 0
    /\ last = NoLast
    /\ acct = NoAcct
    /\ startResults = {}
    /\ ingested = {}
    /\ rerun = FALSE
    /\ runs = 0
    /\ imports = 0
    /\ writes = 0
    /\ out = NoOutput
    /\ exit = NoExit
    /\ origin = NoOrigin
    /\ faults = 0
    /\ roster = NoRoster
    /\ handler = NoHandler

\* no call of render_chart_from_spec in progress
NoCall == [pc |-> "idle", spec |-> NoSpec, src |-> << >>, plot_df |-> << >>,
           out |-> NoOut]

DashIdle ==
    /\ snapshot = <<>>
    /\ chart_spec = NoSpec
    /\ rendered = NoOut
    /\ calls = [c \in 1..MaxCalls |-> NoCall]

PrioIdle ==
    /\ prio_in = <<>>
    /\ prio_out = <<>>
    /\ prio_done = FALSE

\* the assistant answers with a chart block and the page renders it
Render ==
    /\ rendered.kind = "none"
    /\ \E spec \in ChartSpecs :
          /\ chart_spec' = spec
          /\ rendered' \in RenderOutcomes(spec, snapshot)
    /\ UNCHANGED << snapshot, calls, storeVars, prioVars >>

\* the next question: the page is drawn again
AskAgain ==
    /\ rendered.kind # "none"
    /\ chart_spec' = NoSpec
    /\ rendered' = NoOut
    /\ UNCHANGED << snapshot, calls, storeVars, prioVars >>

\* line 199: prio_label applied to a value of the priority column
ApplyPrioLabel ==
    /\ ~prio_done
    /\ prio_out' = PrioLabel(prio_in)
    /\ prio_done' = TRUE
    /\ UNCHANGED << prio_in, storeVars, dashVars >>

\* ------------------------------------------------------- specifications
vars == << storeVars, dashVars, prioVars >>

Init == StoreInit /\ DashIdle /\ PrioIdle

Next == StoreNext

Spec == Init /\ [][Next]_vars

\* the store under load_results alone, with runs that can be cut short
FaultNext ==
    \/ WriteCsv
    \/ RunNoFile
    \/ StartRun
    \/ IngestRow
    \/ IngestDone
    \/ AccountManager
    \/ FinishRun
    \/ Abort

SpecFault == Init /\ [][FaultNext]_vars

QueryInit ==
    /\ StoreEmpty
    /\ PrioIdle
    /\ \E t \in DashTables : snapshot = LoadDataFromDb(t)
    /\ chart_spec = NoSpec
    /\ rendered = NoOut
    /\ calls = [c \in 1..MaxCalls |-> NoCall]

QueryNext ==
    \/ Render
    \/ AskAgain

SpecQuery == QueryInit /\ [][QueryNext]_vars

PrioInit ==
    /\ StoreEmpty
    /\ DashIdle
    /\ prio_in \in PrioInputs
    /\ prio_out = <<>>
    /\ prio_done = FALSE

PrioNext == ApplyPrioLabel

SpecPrio == PrioInit /\ [][PrioNext]_vars

\* ------------------------------------------------------------- properties
\* the tickets that resolve to manager m, by either path
TicketsResolving(rs, m) ==
    {r.ticket : r \in {q \in rs : q.assigned_manager = m.id}}
        \cup {r.ticket : r \in {q \in rs : q.manager_name = m.full_name}}

\* C1: after any number k >= 1 of load-accounting passes over an unchanged set of
\* results, every manager's current_load is the load the roster import gave it
\* plus the number of distinct tickets resolving to it.
C1_LoadIsBaselinePlusDistinct ==
    pc = "idle" =>
        \A p \in 1..Len(managers) :
            (ledger[p].passes >= 1 /\ ~ledger[p].dirty) =>
                managers[p].current_load =
                    ledger[p].baseline_load
                        + Cardinality(TicketsResolving(results, managers[p]))

\* the classification fields and the manager reference of every stored result
Content(rs) ==
    {[ticket |-> r.ticket, ai_type |-> r.ai_type, is_escalated |-> r.is_escalated,
      manager_name |-> r.manager_name, assigned_manager |-> r.assigned_manager] :
        r \in rs}

\* C2: ingesting the same batch a second time leaves every result's fields and
\* manager reference as the first ingestion left them, and creates nothing.
C2_SameBatchTwice ==
    (pc = "account" /\ rerun) =>
        (Content(results) = Content(ingested) /\ created_count = 0)

C2_Witness ==
    /\ pc = "account"
    /\ rerun
    /\ updated_count >= 1
    /\ \E r \in results :
          /\ r.assigned_manager # None
          /\ \E k \in 1..Len(csv.rows) : CleanText(csv.rows[k].GUID) = r.ticket
    /\ \E r \in results :
          \A k \in 1..Len(csv.rows) : CleanText(csv.rows[k].GUID) # r.ticket

\* C3: each ticket has at most one result, whatever batches were ingested.
C3_OneResultPerTicket ==
    \A r1 \in results : \A r2 \in results : r1.ticket = r2.ticket => r1 = r2

C3_Witness ==
    /\ pc = "account"
    /\ Len(csv.rows) = 2
    /\ CleanText(csv.rows[1].GUID) = CleanText(csv.rows[2].GUID)
    /\ created_count = 1
    /\ updated_count = 1
    /\ runs >= 1

\* the two ways a ticket resolves to manager m
FkTickets(rs, m) == {r.ticket : r \in {q \in rs : q.assigned_manager = m.id}}

NameTickets(rs, m) == {r.ticket : r \in {q \in rs : q.manager_name = m.full_name}}

\* C4: what load accounting adds for a manager is the size of the union of the
\* tickets resolving by reference and those resolving by name; a ticket doing
\* both is counted once, so the addition is then less than the two counts' sum.
C4_UnionNotSum ==
    acct.pk # None =>
        LET m == managers[acct.pk]
            F == FkTickets(results, m)
            N == NameTickets(results, m)
        IN /\ acct.new_load - acct.old_load = Cardinality(F \cup N)
           /\ (F \cap N # {}) => acct.new_load - acct.old_load < acct.fk_count + acct.name_count

C4_Witness ==
    /\ acct.pk # None
    /\ LET m == managers[acct.pk]
       IN /\ FkTickets(results, m) \cap NameTickets(results, m) # {}
          /\ FkTickets(results, m) \ NameTickets(results, m) # {}

\* a manager name that stands for no manager of the roster ms
Unresolvable(ms, name) ==
    \/ name = <<>>
    \/ name \in Sentinels
    \/ \A p \in 1..Len(ms) : ~IContains(ms[p].full_name, name)

\* the rows of the batch that decide a stored result: a known ticket's last row
Deciding(rows, ts) ==
    {k \in 1..Len(rows) :
        /\ CleanText(rows[k].GUID) \in ts
        /\ \A n \in (k + 1)..Len(rows) :
              CleanText(rows[n].GUID) # CleanText(rows[k].GUID)}

UnresolvedTickets ==
    {CleanText(csv.rows[k].GUID) :
        k \in {n \in Deciding(csv.rows, tickets) :
                  Unresolvable(managers, CleanText(csv.rows[n].Manager))}}

\* C5: once the batch is ingested, every known ticket whose row names no roster
\* manager (or a sentinel) has a stored result without a manager reference, and
\* no manager's added count includes it.
C5_UnresolvedStoredNotCounted ==
    pc = "account" =>
        /\ \A t \in UnresolvedTickets :
              \E r \in results : r.ticket = t /\ r.assigned_manager = None
        /\ acct.pk # None =>
              acct.new_load - acct.old_load =
                  Cardinality(TicketsResolving(results, managers[acct.pk])
                                  \ UnresolvedTickets)

C5_Witness ==
    /\ pc = "account"
    /\ acct.pk # None
    /\ acct.ai_count > 0
    /\ \E k \in Deciding(csv.rows, tickets) : CleanText(csv.rows[k].Manager) = <<"B", "B">>
    /\ \E r \in results : r.manager_name = <<"B", "B">> /\ r.assigned_manager = None

\* a row without a GUID, or with the GUID of no stored ticket
Skipped(row, ts) == CleanText(row.GUID) = <<>> \/ CleanText(row.GUID) \notin ts

Kept(rows, ts) == SelectSeq(rows, LAMBDA row : ~Skipped(row, ts))

\* C6: a row with a missing GUID or the GUID of no ticket is skipped and changes
\* no result, and the batch leaves the results it leaves without that row.
C6_SkippedRowsAreInert ==
    /\ last.row # 0 =>
          (Skipped(csv.rows[last.row], tickets)
              <=> last.outcome \in {"no_guid", "no_ticket"})
    /\ last.outcome \in {"no_guid", "no_ticket"} => ~last.changed
    /\ pc = "account" =>
          results = IngestAll(startResults, tickets, managers, Kept(csv.rows, tickets))

C6_Witness ==
    /\ pc = "account"
    /\ Len(csv.rows) = 2
    /\ Skipped(csv.rows[1], tickets)
    /\ CleanText(csv.rows[1].GUID) # <<>>
    /\ ~Skipped(csv.rows[2], tickets)
    /\ startResults # {}
    /\ results # startResults

\* C7: a row for a ticket that already has a result replaces the whole record:
\* every field and the manager reference are those the row alone gives.
C7_ReplaceWholeRecord ==
    (last.outcome \in {"created", "updated"} /\ last.existed) =>
        LET row == csv.rows[last.row]
            name == CleanText(row.Manager)
            mine == {r \in results : r.ticket = CleanText(row.GUID)}
        IN /\ last.outcome = "updated"
           /\ mine # {}
           /\ \A r \in mine :
                 /\ r.ai_type = CleanText(row.Type)
                 /\ r.is_escalated = (CleanText(row.Esc) = Da)
                 /\ r.manager_name = name
                 /\ r.assigned_manager = ResolveManager(managers, name)

C7_Witness ==
    /\ pc = "ingest"
    /\ last.outcome = "updated"
    /\ last.prev # None
    /\ last.changed
    /\ \E r \in results :
          /\ r.ticket = CleanText(csv.rows[last.row].GUID)
          /\ r.assigned_manager = None
          /\ r.ai_type = <<>>

\* C8: a row whose manager name is a sentinel or empty is unresolved; any other
\* row resolves to a roster manager whose full name contains the name without
\* regard to case, and is unresolved exactly when no roster manager does.
C8_ManagerResolution ==
    last.outcome \in {"created", "updated"} =>
        LET row == csv.rows[last.row]
            name == CleanText(row.Manager)
            matches == {p \in 1..Len(managers) : IContains(managers[p].full_name, name)}
        IN \A r \in {q \in results : q.ticket = CleanText(row.GUID)} :
              IF name \in {NotFound, Dash, <<>>}
              THEN r.assigned_manager = None
              ELSE /\ r.assigned_manager # None => r.assigned_manager \in matches
                   /\ r.assigned_manager = None <=> matches = {}

C8_Witness ==
    /\ last.outcome \in {"created", "updated"}
    /\ CleanText(csv.rows[last.row].Manager) = <<"a", "B">>
    /\ csv.rows[last.row].Manager # <<"a", "B">>
    /\ \E r \in results :
          /\ r.ticket = CleanText(csv.rows[last.row].GUID)
          /\ r.assigned_manager # None
          /\ managers[r.assigned_manager].full_name = nAb

\* a JSON field that names a column outside AVAILABLE_COLS
OutsideAllowList(x) ==
    \/ x.t = "str" /\ x.name \notin AllowList
    \/ x.t = "list" /\ \E k \in 1..Len(x.names) : x.names[k] \notin AllowList

\* C9: a chart block whose group_by or filter_col names a field outside the
\* allow-list gets a warning, and nothing is aggregated or filtered by that
\* field, also when the field is a column of the snapshot.
C9_AllowListEnforced ==
    (rendered.kind # "none"
        /\ (OutsideAllowList(chart_spec.group_by) \/ OutsideAllowList(chart_spec.filter_col)))
            => rendered.kind = "warning"

\* the value of a numeral is at least k
AtLeast(f, k) == ~f.neg /\ f.num >= k * f.den

\* C10: a priority that is a numeral gets the tier of its value (High from 8,
\* Medium from 5 to below 8, Low below 5); any other text is its own label.
C10_EveryNumberTiered ==
    prio_done =>
        LET f == ParseFloat(prio_in)
        IN IF f.numeral
           THEN prio_out = (IF AtLeast(f, 8) THEN High
                            ELSE IF AtLeast(f, 5) THEN Medium ELSE Low)
           ELSE prio_out = prio_in

\* the rows of df that a filter on a column with a scalar or a collection selects
Matching(df, spec) ==
    LET col == spec.filter_col.name
        given == spec.filter_val.vals
    IN IF spec.filter_val.t = "list"
       THEN SelectSeq(df, LAMBDA row : \E k \in 1..Len(given) : row[col] = given[k])
       ELSE SelectSeq(df, LAMBDA row : row[col] = given[1])

\* a chart block with a filter on a column of the snapshot
FilterGiven(spec) ==
    /\ spec.filter_col.t = "str"
    /\ spec.filter_col.name \in SnapshotColumns
    /\ spec.filter_val.t # "null"

Unfiltered(spec) == [spec EXCEPT !.filter_col = NullJ, !.filter_val = NullJ]

\* C11: with filter_col set and filter_val a scalar or a collection, what is
\* rendered is the aggregation of exactly the snapshot rows whose filter_col
\* value equals filter_val (scalar) or is one of filter_val (collection).
C11_FilterBeforeGroup ==
    (rendered.kind # "none" /\ FilterGiven(chart_spec)) =>
        rendered \in RenderOutcomes(Unfiltered(chart_spec), Matching(snapshot, chart_spec))

\* the rows the aggregation runs over
Filtered == FilterStep(chart_spec, snapshot).df

Smaller(a, b) == IF a < b THEN a ELSE b

\* t is the first rows of a histogram of column col of df: distinct values of
\* the column with their row counts, by descending count, len rows of them
HistogramPrefix(t, df, col, len) ==
    /\ Len(t) = len
    /\ \A k \in 1..Len(t) : t[k].key \in Keys(df, col) /\ t[k].n = CountOf(df, col, t[k].key)
    /\ \A k \in 1..Len(t) : \A n \in 1..Len(t) : t[k].key = t[n].key => k = n
    /\ \A k \in 1..(Len(t) - 1) : t[k].n >= t[k + 1].n
    /\ \A v \in Keys(df, col) :
          (\A k \in 1..Len(t) : t[k].key # v) =>
              \A k \in 1..Len(t) : t[k].n >= CountOf(df, col, v)

\* C12: grouping by one column gives one row per distinct value with its row
\* count, by descending count; with top_n = N, N a non-negative integer, the
\* first N rows of that.
C12_HistogramTopN ==
    LET g == chart_spec.group_by
        n == chart_spec.top_n
        all == Cardinality(Keys(Filtered, g.name))
    IN (/\ rendered.kind \in {"bar", "line"}
        /\ g.t = "str"
        /\ n.t = "null" \/ (n.t = "num" /\ n.vals = <<>> /\ n.n >= 0)) =>
            HistogramPrefix(rendered.table, Filtered, g.name,
                            IF n.t = "null" THEN all ELSE Smaller(n.n, all))

\* the number of rows of df with value x in column a and value y in column b
CoCount(df, a, x, b, y) ==
    Cardinality({k \in 1..Len(df) : df[k][a] = x /\ df[k][b] = y})

\* the values of column a that occur in df beside some value of column b
RowKeys(df, a, b) ==
    {x \in Keys(df, a) : \E y \in Keys(df, b) : CoCount(df, a, x, b, y) > 0}

\* C13: grouping by two columns [a, b] gives a table whose cell (x, y) is the
\* number of filtered rows with a = x and b = y; with top_n = N the table is cut
\* to its first N rows.  (A value of a that occurs beside no value of b has only
\* zero cells and may have no row.)
C13_CrossTabTopN ==
    LET g == chart_spec.group_by
        n == chart_spec.top_n
        a == g.names[1]
        b == g.names[2]
        t == rendered.pivot
        all == Cardinality(RowKeys(Filtered, a, b))
    IN (/\ rendered.kind = "bar"
        /\ g.t = "list"
        /\ n.t = "null" \/ (n.t = "num" /\ n.vals = <<>> /\ n.n >= 0)) =>
            /\ Len(t) = (IF n.t = "null" THEN all ELSE Smaller(n.n, all))
            /\ \A k \in 1..Len(t) : \A m \in 1..Len(t) : t[k].key = t[m].key => k = m
            /\ \A k \in 1..Len(t) :
                  /\ t[k].key \in RowKeys(Filtered, a, b)
                  /\ \A y \in Keys(Filtered, b) :
                        IF y \in DOMAIN t[k].cells
                        THEN t[k].cells[y] = CoCount(Filtered, a, t[k].key, b, y)
                        ELSE CoCount(Filtered, a, t[k].key, b, y) = 0

\* C14: when no row is left after filtering, nothing is raised and the result
\* is an explicit "no data" result, which is neither a warning nor a count table.
C14_NoDataResult ==
    (rendered.kind # "none" /\ Filtered = <<>>) =>
        /\ rendered.kind # "raise"
        /\ rendered.kind \notin {"warning", "bar", "line"}

\* a group_by that is missing, null, neither a name nor a list of two names, or
\* names a column the snapshot does not have
BadGroupBy(g) ==
    CASE g.t = "str" -> g.name \notin SnapshotColumns
      [] g.t = "list" ->
            Len(g.names) # 2 \/ \E k \in 1..Len(g.names) : g.names[k] \notin SnapshotColumns
      [] OTHER -> TRUE

\* a filter_col that is given and is not the name of a column of the snapshot
BadFilterCol(f) == f.t # "null" /\ ~(f.t = "str" /\ f.name \in SnapshotColumns)

\* C15: a chart block whose group_by or filter_col is unusable (see above) never
\* raises and gets a warning instead of a count table; a bad group_by is named
\* in the warning.
C15_WarningNotRaise ==
    (rendered.kind # "none"
        /\ (BadGroupBy(chart_spec.group_by) \/ BadFilterCol(chart_spec.filter_col))) =>
            /\ rendered.kind = "warning"
            /\ BadGroupBy(chart_spec.group_by) => rendered.field = chart_spec.group_by

\* ---------------------------------------------------------- run report
RECURSIVE SumOf(_)
SumOf(counts) == IF counts = <<>> THEN 0 ELSE Head(counts) + SumOf(Tail(counts))

SkippedRows(rows, ts) == {k \in 1..Len(rows) : Skipped(rows[k], ts)}

\* C16: when the loop over the batch has ended, the counts the run has reported
\* add up to the number of rows in the batch, and every skipped row has been
\* reported with its reason.
C16_ReportAccountsForRows ==
    pc = "account" =>
        /\ SumOf(out.counts) = Len(csv.rows)
        /\ SkippedRows(csv.rows, tickets) \subseteq out.warned

\* ------------------------------------------------------------- frame
\* C17: a step of the loop over the batch leaves the managers (their loads
\* included), the tickets and the business units as they were; apart from the
\* roster import, managers change only in a step of the load loop.
C17_IngestionFrame ==
    [][ /\ pc = "ingest" => UNCHANGED << managers, tickets, units >>
        /\ (managers' # managers /\ imports' = imports) =>
              (pc = "account" /\ pc' = "account") ]_vars

\* a row has just stored a result for a roster manager, whose load is still
\* the one the roster import gave it
C17_Witness ==
    /\ pc = "ingest"
    /\ last.changed
    /\ \E r \in results :
          /\ r.ticket = CleanText(csv.rows[last.row].GUID)
          /\ r.assigned_manager # None
          /\ \E p \in 1..Len(managers) :
                /\ managers[p].id = r.assigned_manager
                /\ ledger[p].passes = 0
                /\ managers[p].current_load = ledger[p].baseline_load

\* ------------------------------------------------------ runs cut short
\* an error raised while one row was being upserted ended the last run
RowFailure == pc = "idle" /\ exit.error = "exception" /\ exit.at = "row"

\* C18: when an error is raised while one row is upserted, the run still
\* processes every row of the batch and still runs the load accounting.
C18_RowFailureDoesNotAbort ==
    RowFailure => (exit.rows = exit.of /\ exit.accounted)

\* one whole run of load_results on the store db: the row loop, then the load loop
SingleRun(db, ts, rows) ==
    LET rs == IngestAll(db.results, ts, db.managers, rows)
    IN [results |-> rs,
        managers |-> [p \in 1..Len(db.managers) |->
                        [db.managers[p] EXCEPT
                            !.current_load = NewLoad(@, AiCount(rs, db.managers[p]))]]]

\* the rows of the batch the cut-short run had gone through
Processed == {k \in 1..exit.rows : ~Skipped(csv.rows[k], tickets)}

\* C19: after a run is cut short, the result of every row it had processed is
\* stored; and when the same batch, run again, reaches its end, the results
\* and the manager loads are those of one uninterrupted run on the store the
\* batch was first started on.
C19_InterruptedThenRerun ==
    /\ (pc = "idle" /\ exit.error \in {"exception", "killed"}) =>
          \A k \in Processed :
              \E r \in results : r.ticket = CleanText(csv.rows[k].GUID)
    /\ (pc = "account" /\ j > Len(managers) /\ origin.interrupted) =>
          LET once == SingleRun(origin, tickets, csv.rows)
          IN /\ results = once.results
             /\ managers = once.managers

\* C20: a load_results run that failed is not shown as a success by the
\* handler that launched it.
C20_FailedRunNotSuccess ==
    (pc = "idle" /\ exit.error \in {"nofile", "exception", "killed"}) =>
        HandlerMessage(exit.code) # "success"

\* ------------------------------------------- load accounting after the batch
\* the rows of the batch the run has not gone through yet
Remaining == IF pc = "ingest" THEN SubSeq(csv.rows, i, Len(csv.rows)) ELSE << >>

\* the results once the rest of the batch is upserted
FullBatch == IngestAll(results, tickets, managers, Remaining)

\* the load a manager would get from load accounting run on the results rs
LoadOn(rs, m) == NewLoad(m.current_load, AiCount(rs, m))

\* the run has written no load yet, and load accounting starts on a batch
\* every row of which has been gone through
AccountingAfterBatch ==
    /\ pc = "ingest" => managers = origin.managers
    /\ pc = "account" =>
          /\ i > Len(csv.rows)
          /\ results = IngestAll(startResults, tickets, managers, csv.rows)

\* C21 as stated: load accounting runs after the whole batch, and on a
\* partially applied batch it would give every manager at most the load it
\* gets on the full batch.
C21_PartialIsUndercount ==
    /\ AccountingAfterBatch
    /\ pc = "ingest" =>
          \A p \in 1..Len(managers) :
              LoadOn(results, managers[p]) <= LoadOn(FullBatch, managers[p])

\* no row still to come is for a ticket now counted for the manager m
NothingTakenAway(m) ==
    \A k \in 1..Len(Remaining) :
        CleanText(Remaining[k].GUID) \notin TicketsResolving(results, m)

\* C21 amended: load accounting runs after the whole batch; on a partially
\* applied batch it would give a manager at most the full-batch load provided
\* no row still to come is for a ticket already counted for that manager (a
\* later row replaces the record and can take the ticket away).
C21_UndercountUnlessReassigned ==
    /\ AccountingAfterBatch
    /\ pc = "ingest" =>
          \A p \in 1..Len(managers) :
              NothingTakenAway(managers[p]) =>
                  LoadOn(results, managers[p]) <= LoadOn(FullBatch, managers[p])

\* part of the batch is applied, and a manager would be given strictly less
\* than on the full batch
C21_Witness ==
    /\ pc = "ingest"
    /\ i > 1
    /\ i <= Len(csv.rows)
    /\ results # startResults
    /\ \E p \in 1..Len(managers) :
          /\ NothingTakenAway(managers[p])
          /\ AiCount(results, managers[p]) >= 1
          /\ LoadOn(results, managers[p]) < LoadOn(FullBatch, managers[p])

\* ------------------------------------------------------- sign of the load
\* C22: every manager's current_load is at least 0.
C22_LoadNonNegative ==
    \A p \in 1..Len(managers) : managers[p].current_load >= 0

\* ------------------------------------------- one manager for one result
\* the managers whose load count includes the result r
CountedFor(r, ms) ==
    {p \in 1..Len(ms) :
        r.assigned_manager = ms[p].id \/ r.manager_name = ms[p].full_name}

\* C23: every stored result is counted in the load of at most one manager: the
\* manager it refers to and the manager whose full name equals its stored
\* name are never two different managers.
C23_CountedForOneManager ==
    \A r \in results : Cardinality(CountedFor(r, managers)) <= 1

\* ------------------------------------------------ roster import and loads
\* the managers a data directory lists: the names of its managers.csv
Listed(d) ==
    {CleanText(d.managers[k].FIO) : k \in 1..Len(d.managers)} \ { << >> }

\* the load managers.csv gives a name: safe_int of the cell of its last row
ParsedLoad(d, name) ==
    LET rows == {k \in 1..Len(d.managers) : CleanText(d.managers[k].FIO) = name}
        k == CHOOSE n \in rows : \A o \in rows : o <= n
    IN SafeInt(d.managers[k].Load)

\* import then ingest, from an empty database
ImportThenIngest(d, rows) ==
    LET db == LoadAllOn(EmptyDb, d)
    IN SingleRun([results |-> {}, managers |-> db.managers], db.tickets, rows)

\* a run ends that follows an import of the one data directory ever imported,
\* on a store that held the results of this same batch
SecondRoundEnds ==
    /\ pc = "account"
    /\ j > Len(managers)
    /\ roster.same
    /\ roster.runs = 1
    /\ startResults = IngestAll({}, tickets, managers, csv.rows)

\* C24: after a roster import every manager the roster lists is stored with
\* the load parsed from the roster; and import, ingest, import, ingest of one
\* roster and batch ends with the manager loads of import, ingest.
C24_ImportResetsLoad ==
    /\ (pc = "idle" /\ roster.runs = 0) =>
          \A name \in Listed(roster.last) :
              \E p \in 1..Len(managers) :
                  /\ managers[p].full_name = name
                  /\ managers[p].current_load = ParsedLoad(roster.last, name)
    /\ SecondRoundEnds =>
          managers = ImportThenIngest(roster.last, csv.rows).managers

\* ------------------------------------------------- calls side by side
\* the chart blocks of the calls that run side by side
SharedSpecs ==
    {[chart_type |-> "bar", group_by |-> g, filter_col |-> f.col,
      filter_val |-> f.val, top_n |-> n] :
        g \in {NameJ("Tip"), NamesJ(<<"Tip", "Ofis_Naznacheniya">>), NameJ("Gorod")},
        f \in {[col |-> NullJ, val |-> NullJ],
               [col |-> NameJ("Tip"), val |-> ValJ(StrV(<<"C">>))],
               [col |-> NamesJ(<<"Tip">>), val |-> ValJ(StrV(<<"C">>))]},
        n \in {NullJ, IntJ(1)}}

\* plot_df = source_df.copy()
CopyOf(source_df) == source_df

\* variant of FilterCall that drops the rows from the frame it was given
FilterInPlace(spec, plot_df, source_df) ==
    LET f == FilterStep(spec, plot_df)
    IN [ok |-> f.ok, df |-> f.df, source |-> f.df]

\* lines 417-421 on the call's own copy: the frame it was given is only read
FilterCall(spec, plot_df, source_df) ==
    LET f == FilterStep(spec, plot_df)
    IN [ok |-> f.ok, df |-> f.df, source |-> source_df]

\* lines 408-415: the arguments are read and the frame copied
CallStart(c) ==
    /\ calls[c].pc = "idle"
    /\ \E spec \in SharedSpecs :
          calls' = [calls EXCEPT ![c] = [pc |-> "copied", spec |-> spec,
                                         src |-> snapshot,
                                         plot_df |-> CopyOf(snapshot),
                                         out |-> NoOut]]
    /\ UNCHANGED << snapshot, chart_spec, rendered, storeVars, prioVars >>

\* lines 417-421: the filter
CallFilter(c) ==
    /\ calls[c].pc = "copied"
    /\ LET step == FilterCall(calls[c].spec, calls[c].plot_df, snapshot)
       IN /\ snapshot' = step.source
          /\ calls' = [calls EXCEPT ![c] =
                          IF step.ok
                          THEN [@ EXCEPT !.pc = "filtered", !.plot_df = step.df]
                          ELSE [@ EXCEPT !.pc = "done", !.out = Raised]]
    /\ UNCHANGED << chart_spec, rendered, storeVars, prioVars >>

\* lines 425-446: the table is counted and drawn
CallGroup(c) ==
    /\ calls[c].pc = "filtered"
    /\ \E o \in RenderOutcomes(Unfiltered(calls[c].spec), calls[c].plot_df) :
          calls' = [calls EXCEPT ![c] = [@ EXCEPT !.pc = "done", !.out = o]]
    /\ UNCHANGED << snapshot, chart_spec, rendered, storeVars, prioVars >>

\* the call returns
CallReturn(c) ==
    /\ calls[c].pc = "done"
    /\ calls' = [calls EXCEPT ![c] = NoCall]
    /\ UNCHANGED << snapshot, chart_spec, rendered, storeVars, prioVars >>

ConcNext ==
    \E c \in 1..MaxCalls :
        \/ CallStart(c)
        \/ CallFilter(c)
        \/ CallGroup(c)
        \/ CallReturn(c)

SpecConc == QueryInit /\ [][ConcNext]_vars

\* C25: while calls run side by side over one snapshot, the snapshot stays as
\* each call was given it, no stored record appears or changes, and every call
\* that has finished holds a result it can return when run alone on that
\* snapshot.
C25_CallsDoNotInterfere ==
    /\ StoreEmpty
    /\ \A c \in 1..MaxCalls :
          calls[c].pc # "idle" =>
              /\ snapshot = calls[c].src
              /\ calls[c].pc = "done" =>
                    calls[c].out \in RenderOutcomes(calls[c].spec, calls[c].src)

\* one call has drawn a table while another, started before the first ended,
\* holds a filtered copy shorter than the snapshot
C25_Witness ==
    \E c, e \in 1..MaxCalls :
        /\ c # e
        /\ calls[c].pc = "done"
        /\ calls[c].out.kind = "bar"
        /\ calls[c].spec # calls[e].spec
        /\ calls[e].pc = "filtered"
        /\ Len(calls[e].plot_df) < Len(snapshot)
        /\ Len(calls[e].plot_df) >= 1

\* ------------------------------------------------- the run handler
\* the exit codes of the classifier process: success, failure, killed
GoCodes == {0, 1, -9}

\* variant of Branch that looks at the return code first
BranchOnCode(is_timeout, returncode) ==
    IF returncode = 0 THEN "load"
    ELSE IF is_timeout THEN "timeout"
    ELSE "error"

\* lines 132-160: if is_timeout / elif process.returncode == 0 / else
Branch(is_timeout, returncode) ==
    IF is_timeout THEN "timeout"
    ELSE IF returncode = 0 THEN "load"
    ELSE "error"

\* lines 91-110: the button is pressed and go run main.go is started; when go
\* is not installed Popen raises FileNotFoundError and the handler reports it
Press ==
    /\ handler.pc = "idle"
    /\ pc = "idle"
    /\ \E found \in BOOLEAN :
          handler' = [pc |-> IF found THEN "go" ELSE "failed",
                      is_timeout |-> FALSE,
                      returncode |-> 0,
                      message |-> IF found THEN "none" ELSE "error",
                      entry |-> [results |-> results, managers |-> managers,
                                 tickets |-> tickets, units |-> units,
                                 runs |-> runs]]
    /\ UNCHANGED << storeFields, dashVars, prioVars >>

\* the classifier writes results.csv while it runs
GoWrite ==
    /\ handler.pc = "go"
    /\ WriteCsv

\* lines 113-118: a line is read after the time allowed: kill, break
TimeOut ==
    /\ handler.pc = "go"
    /\ handler' = [handler EXCEPT !.pc = "wait", !.is_timeout = TRUE]
    /\ UNCHANGED << storeFields, dashVars, prioVars >>

\* line 113: readline returns "": the classifier has closed its output
EndOfOutput ==
    /\ handler.pc = "go"
    /\ handler' = [handler EXCEPT !.pc = "wait"]
    /\ UNCHANGED << storeFields, dashVars, prioVars >>

\* lines 126-127: process.wait(). A killed process returns -9, unless it had
\* ended by itself before the signal was sent
Wait ==
    /\ handler.pc = "wait"
    /\ \E code \in GoCodes :
          /\ code = -9 => handler.is_timeout
          /\ handler' = [handler EXCEPT !.pc = "decide", !.returncode = code]
    /\ UNCHANGED << storeFields, dashVars, prioVars >>

\* lines 130-160: the three branches
Decide ==
    /\ handler.pc = "decide"
    /\ LET b == Branch(handler.is_timeout, handler.returncode)
       IN handler' = [handler EXCEPT
                         !.pc = IF b = "load" THEN "load" ELSE "failed",
                         !.message = IF b = "load" THEN "none" ELSE "error"]
    /\ UNCHANGED << storeFields, dashVars, prioVars >>

\* lines 140-143: subprocess.run of load_results.py
Launch ==
    /\ handler.pc = "load"
    /\ runs = handler.entry.runs
    /\ (StartRun \/ RunNoFile)

\* lines 146-151: load_results has ended, its return code is reported
Report ==
    /\ handler.pc = "load"
    /\ pc = "idle"
    /\ runs = handler.entry.runs + 1
    /\ handler' = [NoHandler EXCEPT !.message = HandlerMessage(exit.code)]
    /\ UNCHANGED << storeFields, dashVars, prioVars >>

\* the handler ends without loading
GiveUp ==
    /\ handler.pc = "failed"
    /\ handler' = [NoHandler EXCEPT !.message = "error"]
    /\ UNCHANGED << storeFields, dashVars, prioVars >>

HandlerNext ==
    \/ Press
    \/ GoWrite
    \/ TimeOut
    \/ EndOfOutput
    \/ Wait
    \/ Decide
    \/ Launch
    \/ IngestRow
    \/ IngestDone
    \/ AccountManager
    \/ FinishRun
    \/ Report
    \/ GiveUp

SpecHandler == Init /\ [][HandlerNext]_vars

\* C26: load_results runs only in a handler whose classifier ended with exit
\* code 0 and was not timed out; a handler whose classifier timed out or ended
\* with another code has started no ingestion and has left the store as it
\* was when the button was pressed.
C26_IngestOnlyAfterCleanExit ==
    /\ pc # "idle" =>
          /\ handler.pc = "load"
          /\ ~handler.is_timeout
          /\ handler.returncode = 0
    /\ handler.pc = "failed" =>
          /\ runs = handler.entry.runs
          /\ results = handler.entry.results
          /\ managers = handler.entry.managers
          /\ tickets = handler.entry.tickets
          /\ units = handler.entry.units

\* the classifier ended with code 0 but was timed out, having written a batch
\* that would change the results stored by an earlier run: nothing is loaded
C26_Witness ==
    /\ handler.pc = "failed"
    /\ handler.is_timeout
    /\ handler.returncode = 0
    /\ results # {}
    /\ csv.exists
    /\ IngestAll(results, tickets, managers, csv.rows) # results

====
